---------------------------- MODULE Spec2Model ----------------------------
(***************************************************************************)
(* yamling: loading of YAML documents with INHERIT resolution.             *)
(*                                                                         *)
(* The model follows one top-level load call through its recursion.  The   *)
(* Python call stack is the variable `stack`: one frame per invocation of  *)
(* a file/string entry point, holding that invocation's local variables    *)
(* (path_obj, data, the part of reversed(file_paths) not yet iterated).    *)
(* The file system is fixed during a load and is chosen in Init.           *)
(***************************************************************************)
EXTENDS Integers, Sequences, FiniteSets, TLC

(***************************************************************************)
(* Bounds of the model.                                                    *)
(***************************************************************************)
\* Number of nested entry-point invocations the interpreter allows before
\* it raises RecursionError (stands for sys.getrecursionlimit()).
RecursionLimit == 4

\* Number of times the caller loads the same file, one load after the other.
MaxLoads == 2

(***************************************************************************)
(* Documents.  A parsed YAML value is a record [kind, val]:                *)
(*   "scalar": val is a number; "str": val is a string (a path);           *)
(*   "seq": val is a sequence of strings; "null": YAML null;               *)
(*   "map": val is a function from keys (strings) to values.               *)
(***************************************************************************)
Sc(n) == [kind |-> "scalar", val |-> n]
\* a string holding a path; val is the path as its sequence of components
\* ("sub/a.yaml" is <<"sub", "a.yaml">>, the empty string is <<>>)
Str(s) == [kind |-> "str", val |-> s]
List(q) == [kind |-> "seq", val |-> q]
Null == [kind |-> "null", val |-> 0]
Map(f) == [kind |-> "map", val |-> f]
\* "no value": a frame that has not parsed yet, a call that returned nothing
NoDoc == [kind |-> "none", val |-> 0]
\* the content of a file whose text the parser rejects
Unparsable == [kind |-> "unparsable", val |-> 0]

IsMap(v) == v.kind = "map"
Keys(v) == IF IsMap(v) THEN DOMAIN v.val ELSE {}
HasKey(v, k) == k \in Keys(v)

\* dict.pop(key): the mapping without the key
Pop(v, k) == Map([x \in (DOMAIN v.val) \ {k} |-> v.val[x]])

\* only None counts as no value ("parent_path is None")
IsNotNone(v) == v.kind # "null"

\* Python truthiness of a parsed value ("not parent_path")
Truthy(v) ==
    CASE v.kind = "null" -> FALSE
      [] v.kind = "str" -> v.val # <<>>
      [] v.kind = "seq" -> Len(v.val) > 0
      [] v.kind = "scalar" -> v.val # 0
      [] v.kind = "map" -> DOMAIN v.val # {}
      [] OTHER -> FALSE

RECURSIVE Reverse(_)
Reverse(s) == IF s = <<>> THEN <<>> ELSE Append(Reverse(Tail(s)), Head(s))

(***************************************************************************)
(* deepmerge.DeepMerger.merge(source, target), section 4.1 of the          *)
(* specification: merge(overlay, base).                                    *)
(***************************************************************************)
RECURSIVE Merge(_, _)
Merge(overlay, base) ==
    IF IsMap(overlay) /\ IsMap(base)
    THEN Map([k \in DOMAIN overlay.val \cup DOMAIN base.val |->
                IF k \in DOMAIN overlay.val
                THEN IF k \in DOMAIN base.val
                     THEN Merge(overlay.val[k], base.val[k])
                     ELSE overlay.val[k]
                ELSE base.val[k]])
    ELSE overlay

(***************************************************************************)
(* Paths (upath.UPath).  A path is the sequence of its components,         *)
(* relative to the directory the test files live in.                       *)
(***************************************************************************)
\* UPath.resolve(): collapse "name/.." pairs
RECURSIVE Resolve(_)
Resolve(p) ==
    IF \E i \in 2..Len(p) : p[i] = ".." /\ p[i-1] # ".."
    THEN LET i == CHOOSE j \in 2..Len(p) :
                    /\ p[j] = ".." /\ p[j-1] # ".."
                    /\ \A h \in 2..(j-1) : ~(p[h] = ".." /\ p[h-1] # "..")
         IN Resolve(SubSeq(p, 1, i-2) \o SubSeq(p, i+1, Len(p)))
    ELSE p

\* UPath.parent
Parent(p) == IF p = <<>> THEN <<>> ELSE SubSeq(p, 1, Len(p) - 1)

\* base_dir / p_path
Join(base_dir, p_path) == base_dir \o p_path

(***************************************************************************)
(* The files on disk.                                                      *)
(***************************************************************************)
FileA == <<"sub", "a.yaml">>
FileB == <<"b.yaml">>
FileC == <<"c.yaml">>
Files == {FileA, FileB, FileC}
NoFile == <<"nonexistent.yaml">>

\* every scalar written in a file carries the file's number, so that a value
\* found in a result names the file it came from
Tag(f) == CASE f = FileA -> 1 [] f = FileB -> 2 [] f = FileC -> 3

\* the reference by which a file in `from`'s directory names the file `to`
RefTo(from, to) ==
    IF Parent(from) = Parent(to) THEN <<to[Len(to)]>>
    ELSE IF Parent(from) = <<>> THEN to
    ELSE <<"..">> \o to

SubKeys == {"timeout", "retries"}

\* what a file can hold under "settings": a scalar, or a mapping
SettingsChoices(f) ==
    {Sc(Tag(f)),
     Map([k \in {"timeout"} |-> Sc(Tag(f))]),
     Map([k \in SubKeys |-> Sc(Tag(f))])}

\* what a file can hold under INHERIT: null, one path, or a list of paths.
\* The loaded file c.yaml may list two parents; sub/a.yaml is the far end of
\* the chains and can close a cycle.
InheritChoices(f) ==
    CASE f = FileC ->
            {Null, Str(NoFile), Str(RefTo(f, FileA)), Str(RefTo(f, FileB)),
             List(<<RefTo(f, FileA), RefTo(f, FileB)>>),
             List(<<RefTo(f, FileB), RefTo(f, FileA)>>)}
      [] f = FileB ->
            {Null, Str(NoFile), Str(RefTo(f, FileA)), Str(RefTo(f, FileC))}
      [] f = FileA ->
            {Str(NoFile), Str(RefTo(f, FileB)), Str(RefTo(f, FileC))}

AtMostOne(S) == {{}} \cup {{x} : x \in S}

\* a mapping document from optional INHERIT and settings entries
MkDoc(inh, settings) ==
    Map([k \in ({"INHERIT" : x \in inh} \cup {"settings" : x \in settings}) |->
            IF k = "INHERIT" THEN CHOOSE x \in inh : TRUE
            ELSE CHOOSE x \in settings : TRUE])

\* a file holds a mapping, or a bare scalar (a document that is no mapping)
DocChoices(f) ==
    {MkDoc(i, s) : i \in AtMostOne(InheritChoices(f)),
                   s \in AtMostOne(SettingsChoices(f))}
    \cup {Sc(Tag(f))}

FileSystems ==
    {[f \in Files |-> CASE f = FileA -> da [] f = FileB -> db [] f = FileC -> dc] :
        da \in DocChoices(FileA), db \in DocChoices(FileB), dc \in DocChoices(FileC)}

(***************************************************************************)
(* A second family of file systems, for the loads that vary the options:   *)
(* sequences under "settings", empty INHERIT values, unparsable texts.     *)
(***************************************************************************)
\* a sequence value written in file f
SeqOf(f) == List(<<f>>)

OptSettingsChoices(f) ==
    CASE f = FileC ->
            {SeqOf(f), Map([k \in {"timeout"} |-> SeqOf(f)]),
             Map([k \in {"timeout"} |-> Sc(Tag(f))])}
      [] f = FileB ->
            {SeqOf(f),
             Map([k \in SubKeys |-> IF k = "timeout" THEN SeqOf(f) ELSE Sc(Tag(f))]),
             Map([k \in SubKeys |-> Sc(Tag(f))])}
      [] f = FileA -> {Map([k \in SubKeys |-> Sc(Tag(f))])}

\* INHERIT: null, the empty string, the empty list, or one parent
OptInheritChoices(f) ==
    CASE f = FileC -> {Null, Str(<<>>), List(<<>>), Str(RefTo(f, FileB))}
      [] f = FileB -> {Str(RefTo(f, FileA))}
      [] f = FileA -> {}

OptDocChoices(f) ==
    CASE f = FileC ->
            {MkDoc(i, s) : i \in AtMostOne(OptInheritChoices(f)),
                           s \in AtMostOne(OptSettingsChoices(f))}
            \cup {Sc(Tag(f)), Unparsable}
      [] f = FileB ->
            {MkDoc(i, {s}) : i \in AtMostOne(OptInheritChoices(f)),
                             s \in OptSettingsChoices(f)}
            \cup {Unparsable}
      [] f = FileA -> {MkDoc({}, {s}) : s \in OptSettingsChoices(f)}

OptFileSystems ==
    {[f \in Files |-> CASE f = FileA -> da [] f = FileB -> db [] f = FileC -> dc] :
        da \in OptDocChoices(FileA), db \in OptDocChoices(FileB),
        dc \in OptDocChoices(FileC)}

(***************************************************************************)
(* The entry points and their options.                                     *)
(***************************************************************************)
LoadPy == "load.load_yaml_file"
YamlLoaders == "yaml_loaders.load_yaml_file"
UniLoadFile == "load_universal.load_file"
UniLoad == "load_universal.load"
EntryPoints == {LoadPy, YamlLoaders, UniLoadFile, UniLoad}
\* the string entry point of yaml_loaders.py, the two resolvers called on
\* their own, and the file writer
YamlLoad == "yaml_loaders.load_yaml"
YLResolve == "yaml_loaders._resolve_inherit"
LUResolve == "load_universal._resolve_inherit"
DumpFile == "dump_universal.dump_file"
Resolvers == {YLResolve, LUResolve}
AllEntryPoints == EntryPoints \cup {YamlLoad, DumpFile} \cup Resolvers

\* resolve_inherit as the caller passes it: a bool, or (load_universal.load
\* only) the directory to resolve parents from.  For a resolver called on
\* its own it is the base_dir argument: a directory, or None.
ResolveArgs(fn) ==
    CASE fn = UniLoad -> {"False", "True", "dir"}
      [] fn = YamlLoad -> {"False", "True", "named"}
      [] fn \in Resolvers -> {"dir", "None"}
      [] fn = DumpFile -> {"False"}
      [] OTHER -> {"False", "True"}

\* yaml_loaders.py, LOADERS: the safety modes
LoaderStrs == {"unsafe", "full", "safe"}
\* typedefs.SupportedFormats
SupportedFormats == {"yaml", "toml", "json", "ini"}
\* a mode string that is none of the known ones
Bogus == "bogus"

Universal == {UniLoadFile, UniLoad, LUResolve, DumpFile}

\* the mode argument when the caller leaves it out
DefaultMode(fn) ==
    CASE fn \in {UniLoadFile, DumpFile} -> "auto"
      [] fn \in {UniLoad, LUResolve} -> "yaml"
      [] OTHER -> "unsafe"

\* the mode arguments a caller can pass
Modes(fn) ==
    CASE fn \in {UniLoadFile, DumpFile} -> SupportedFormats \cup {"auto", Bogus}
      [] fn = UniLoad -> SupportedFormats \cup {Bogus}
      [] fn = LUResolve -> {"yaml"}
      [] fn = YLResolve -> {"unsafe"}
      [] OTHER -> {"unsafe", "safe", Bogus}

\* verify_type as the caller passes it (load_universal only)
VerifyTypes(fn) ==
    IF fn \in {UniLoadFile, UniLoad} THEN {"None", "dict", "Config"} ELSE {"None"}

\* the paths a caller can pass: the loaded file, or one that does not exist
\* (a string entry point is given a text, the content of `root`)
Roots(fn) ==
    IF fn \in {LoadPy, YamlLoaders, UniLoadFile, DumpFile} THEN {FileC, NoFile}
    ELSE {FileC}

(***************************************************************************)
(* The parser level: loader classes, tag bindings, and the construction of *)
(* a document from its node tree (yaml_loaders.py, lines 41-192).          *)
(*                                                                         *)
(* A string is a record [text, tpl]: `text` names it, `tpl` says what the  *)
(* template engine makes of it: "plain" (no markup, renders to itself),    *)
(* "template" (renders to another string), "undefined" (rendering raises   *)
(* jinja2.TemplateError), "zerodiv" (rendering raises another exception),  *)
(* and "rendered" for the output of a rendering.                           *)
(***************************************************************************)
Strings ==
    [text : {"greeting"}, tpl : {"plain", "template", "undefined", "zerodiv"}]

\* env.from_string(value).render(): the exception it raises, "none" if none
RenderError(s) ==
    CASE s.tpl = "undefined" -> "TemplateError"
      [] s.tpl = "zerodiv" -> "ZeroDivisionError"
      [] OTHER -> "none"

\* env.from_string(value).render(): the string it returns
Render(s) ==
    IF s.tpl = "template" THEN [text |-> s.text, tpl |-> "rendered"] ELSE s

\* Python values a constructor returns
PyStr(s) == [kind |-> "pystr", val |-> s]
PyInt(n) == [kind |-> "pyint", val |-> n]
PyNone == [kind |-> "pynone", val |-> 0]
PyDict(k, v) == [kind |-> "pydict", val |-> <<k, v>>]
PyList(v) == [kind |-> "pylist", val |-> <<v>>]
\* a native object built from a python/... tag, or the content of an
\* included or environment resource
PyObject(tag) == [kind |-> "pyobject", val |-> tag]

\* the tags of the model.  The last four stand for the families
\* python/name:*, python/object/apply:*, python/object:*.
StrTag == "tag:yaml.org,2002:str"
IntTag == "tag:yaml.org,2002:int"
MapTag == "tag:yaml.org,2002:map"
SeqTag == "tag:yaml.org,2002:seq"
PythonName == "tag:yaml.org,2002:python/name:"
PythonApply == "tag:yaml.org,2002:python/object/apply:"
PythonObject == "tag:yaml.org,2002:python/object:"
NameTag == "tag:yaml.org,2002:python/name:os.getcwd"
ApplyTag == "tag:yaml.org,2002:python/object/apply:os.system"
ObjectTag == "tag:yaml.org,2002:python/object:pkg.Thing"
CustomTags == {"!include", "!relative", "!ENV"}
PythonTags == {NameTag, ApplyTag, ObjectTag}

\* the multi-constructor prefix a tag starts with, "" if none
PrefixOf(tag) ==
    CASE tag = NameTag -> PythonName
      [] tag = ApplyTag -> PythonApply
      [] tag = ObjectTag -> PythonObject
      [] OTHER -> ""

\* yaml.ScalarNode, yaml.MappingNode (one key/value pair), yaml.SequenceNode
\* (one item)
ScalarNode(tag, value) == [kind |-> "scalar", tag |-> tag, value |-> value]
MappingNode(tag, k, v) == [kind |-> "mapping", tag |-> tag, value |-> <<k, v>>]
SequenceNode(tag, item) == [kind |-> "sequence", tag |-> tag, value |-> <<item>>]

\* a constructor: the function bound to a tag.  The three fields after `h`
\* are the closure of construct_jinja2_str and unused by the others
Ctor(h) == [h |-> h, env |-> "None", rs |-> FALSE, rdk |-> FALSE]
\* get_jinja2_constructor(env, resolve_strings, resolve_dict_keys)
JinjaCtor(env, rs, rdk) == [h |-> "jinja", env |-> env, rs |-> rs, rdk |-> rdk]

\* the constructors PyYAML's loaders come with: every loader builds the
\* standard types; the full and unsafe loaders build Python names and
\* objects, the unsafe loader also applies callables
BaseTable(m) ==
    [t \in {StrTag, IntTag, MapTag, SeqTag} |-> Ctor("builtin")]
BaseMulti(m) ==
    CASE m = "safe" -> [t \in {} |-> Ctor("builtin")]
      [] m = "full" -> [t \in {PythonName, PythonObject} |-> Ctor("python")]
      [] m = "unsafe" ->
            [t \in {PythonName, PythonObject, PythonApply} |-> Ctor("python")]

\* a loader class: its constructor tables, and for the claims the call that
\* made it ("LOADERS" for the three base loaders) with its flags
LoaderClass(table, multi, made_by, flags) ==
    [table |-> table, multi |-> multi, made_by |-> made_by, flags |-> flags]

NoFlags ==
    [enable_include |-> FALSE, enable_env |-> FALSE, resolve_strings |-> FALSE,
     resolve_dict_keys |-> FALSE, jinja_env |-> "None", base |-> 0]

\* yaml_loaders.py, LOADERS, as a sequence: unsafe, full, safe
BaseIndex(m) == CASE m = "unsafe" -> 1 [] m = "full" -> 2 [] m = "safe" -> 3
LOADERS ==
    [i \in 1..3 |->
        LET m == CASE i = 1 -> "unsafe" [] i = 2 -> "full" [] i = 3 -> "safe"
        IN  LoaderClass(BaseTable(m), BaseMulti(m), "LOADERS", NoFlags)]

\* the outcome of constructing a node: the exception raised ("none" if
\* none), the value returned, the side effects ("read": an external
\* resource was read, "environ": the environment was read, "instantiate": a
\* native object was built or a callable applied) and the records logged
Returned(v, eff, logged) ==
    [exc |-> "none", val |-> v, eff |-> eff, logged |-> logged]
Raised(e, eff, logged) ==
    [exc |-> e, val |-> PyNone, eff |-> eff, logged |-> logged]

\* loader.construct_scalar(node): the node's value, an error for a
\* collection node
ConstructScalar(node, eff, logged) ==
    IF node.kind = "scalar"
    THEN Returned((IF node.tag = IntTag THEN PyInt(node.value)
                   ELSE PyStr(node.value)), eff, logged)
    ELSE Raised("ConstructorError", eff, logged)

\* the constructor a loader class uses for a tag: the one bound to the
\* exact tag, else the multi-constructor bound to a prefix of it
HasCtor(cls, tag) ==
    tag \in DOMAIN cls.table \/ PrefixOf(tag) \in DOMAIN cls.multi
CtorOf(cls, tag) ==
    IF tag \in DOMAIN cls.table THEN cls.table[tag] ELSE cls.multi[PrefixOf(tag)]

\* yaml_loaders.py, construct_jinja2_str: which exceptions leave the
\* handler, and which make it fall back to the raw scalar
J_propagates_all(e) == TRUE
J_propagates(e) == e = "TemplateError"

RECURSIVE ConstructObject(_, _)
RECURSIVE ConstructPair(_, _)
RECURSIVE ConstructJinja2Str(_, _, _)

\* loader.construct_mapping(node) for the one pair of the node: the key,
\* then the value, each through the class's constructors
ConstructPair(cls, node) ==
    LET k == ConstructObject(cls, node.value[1])
    IN  IF k.exc # "none" THEN k
        ELSE LET v == ConstructObject(cls, node.value[2])
             IN  IF v.exc # "none"
                 THEN Raised(v.exc, k.eff \cup v.eff, k.logged + v.logged)
                 ELSE Returned(PyDict(k.val, v.val), k.eff \cup v.eff,
                               k.logged + v.logged)

\* yaml_loaders.py, construct_jinja2_str(loader, node) with closure c
ConstructJinja2Str(cls, node, c) ==
    LET \* the except clauses: a TemplateError is re-raised, anything else
        \* is logged and the raw scalar returned
        handle(r) ==
            IF r.exc = "none" \/ J_propagates(r.exc) THEN r
            ELSE ConstructScalar(node, r.eff, r.logged + 1)
    IN  IF c.env = "None" \/ ~c.rs
        THEN handle(ConstructScalar(node, {}, 0))
        ELSE CASE node.kind = "scalar" ->
                    IF node.tag = IntTag \/ RenderError(node.value) = "none"
                    THEN Returned(PyStr(Render(node.value)), {}, 0)
                    ELSE handle(Raised(RenderError(node.value), {}, 0))
               [] node.kind = "mapping" ->
                    LET m == ConstructPair(cls, node)
                    IN  IF m.exc # "none" THEN handle(m)
                        ELSE IF c.rdk /\ m.val.val[1].kind = "pystr"
                        THEN LET k == m.val.val[1].val
                             IN  IF RenderError(k) = "none"
                                 THEN Returned(
                                        PyDict(PyStr(Render(k)), m.val.val[2]),
                                        m.eff, m.logged)
                                 ELSE handle(Raised(RenderError(k), m.eff,
                                                    m.logged))
                        ELSE m
               [] node.kind = "sequence" ->
                    LET i == ConstructObject(cls, node.value[1])
                    IN  IF i.exc # "none" THEN handle(i)
                        ELSE Returned(PyList(i.val), i.eff, i.logged)

\* yaml: loader.construct_object(node): find the constructor of the node's
\* tag and call it
ConstructObject(cls, node) ==
    IF ~HasCtor(cls, node.tag) THEN Raised("ConstructorError", {}, 0)
    ELSE LET c == CtorOf(cls, node.tag)
         IN  CASE c.h = "jinja" -> ConstructJinja2Str(cls, node, c)
               [] c.h = "discard" -> Returned(PyNone, {}, 0)
               [] c.h = "include" -> Returned(PyObject(node.tag), {"read"}, 0)
               [] c.h = "env" -> Returned(PyObject(node.tag), {"environ"}, 0)
               [] c.h = "python" ->
                    Returned(PyObject(node.tag), {"instantiate"}, 0)
               [] c.h = "builtin" ->
                    CASE node.tag = MapTag /\ node.kind = "mapping" ->
                            ConstructPair(cls, node)
                      [] node.tag = SeqTag /\ node.kind = "sequence" ->
                            LET i == ConstructObject(cls, node.value[1])
                            IN  IF i.exc # "none" THEN i
                                ELSE Returned(PyList(i.val), i.eff, i.logged)
                      [] node.tag \in {StrTag, IntTag} ->
                            ConstructScalar(node, {}, 0)
                      [] OTHER -> Raised("ConstructorError", {}, 0)

VARIABLES
    fs,         \* the files on disk: path -> parsed content
    entry,      \* the entry point the caller invoked
    root,       \* the path (or, for load, the source of the text) it was given
    arg,        \* the resolve_inherit argument of the top-level call
    stack,      \* the call stack, innermost frame last
    exc,        \* the exception being propagated, "none" if none
    result,     \* the value returned to the caller (NoDoc until then)
    outcome,    \* "running", "ok", or the name of the exception raised
    reads,      \* the path of every path_obj.read_text() call, in order
    returned,   \* what each parent load returned to the top-level frame
    log,        \* the logger.exception records, in order
    mode,       \* the mode argument of the top-level call
    verify,     \* the verify_type argument of the top-level call
    cause,      \* the original error a ParsingError/DumpingError carries
    writes,     \* the path of every path_obj.write_text() call, in order
    options,    \* the other keyword arguments of the top-level call
    prior,      \* the reads and the result of each earlier load of the file
    classes,    \* the loader classes that exist, LOADERS' first
    node,       \* the node tree yaml.load is composing a document from
    effects     \* what constructing the document did outside the parser

\* the state of the parser-level model
yvars == <<classes, node, effects>>

vars == <<fs, entry, root, arg, stack, exc, result, outcome, reads, returned,
          log, mode, verify, cause, writes, options, prior, classes, node,
          effects>>

\* the locals of one invocation; `pops` counts its data.pop("INHERIT"),
\* `merged` lists the parents whose data it has merged so far
\* the keyword arguments a loader passes down besides resolve_inherit
DefaultOptions ==
    [include_base_path |-> "None", resolve_strings |-> FALSE,
     resolve_dict_keys |-> FALSE, jinja_env |-> "None"]
CustomOptions ==
    [include_base_path |-> "base", resolve_strings |-> TRUE,
     resolve_dict_keys |-> TRUE, jinja_env |-> "env"]

\* the options of a call, its mode among them
WithMode(o, m) ==
    [mode |-> m, include_base_path |-> o.include_base_path,
     resolve_strings |-> o.resolve_strings,
     resolve_dict_keys |-> o.resolve_dict_keys, jinja_env |-> o.jinja_env]

\* the options a caller can pass
OptionChoices(fn) ==
    IF fn \in {LoadPy, YamlLoaders} THEN {DefaultOptions, CustomOptions}
    ELSE {DefaultOptions}

Frame(fn, path, resolve, base_dir) ==
    [fn |-> fn, path |-> path, resolve |-> resolve, base_dir |-> base_dir,
     data |-> NoDoc, pending |-> <<>>, pc |-> "start",
     pops |-> 0, merged |-> <<>>, opts |-> WithMode(DefaultOptions, "unsafe")]

\* the frame of the top-level call
FirstFrame ==
    [Frame(entry, root, arg,
           IF arg \in {"dir", "named"} THEN Parent(root) ELSE <<>>)
        EXCEPT !.opts = WithMode(options, mode)]

\* the loads of the inheritance graphs, every option at its default
InitFiles ==
    /\ fs \in FileSystems
    /\ entry \in EntryPoints
    /\ root = FileC
    /\ arg \in ResolveArgs(entry)
    /\ mode = DefaultMode(entry)
    /\ options = DefaultOptions
    /\ verify = "None"

\* the loads that vary the options
InitOptions ==
    /\ fs \in OptFileSystems
    /\ entry \in AllEntryPoints
    /\ root \in Roots(entry)
    /\ arg \in ResolveArgs(entry) \cup (IF entry = UniLoad THEN {"named"} ELSE {})
    /\ mode \in Modes(entry)
    /\ options \in OptionChoices(entry)
    /\ verify \in VerifyTypes(entry)

Init ==
    /\ InitFiles \/ InitOptions
    /\ stack = <<FirstFrame>>
    /\ exc = "none"
    /\ result = NoDoc
    /\ outcome = "running"
    /\ reads = <<>>
    /\ returned = <<>>
    /\ log = <<>>
    /\ cause = "none"
    /\ writes = <<>>
    /\ prior = <<>>
    /\ classes = LOADERS
    /\ node = NoDoc
    /\ effects = {}

Top == stack[Len(stack)]
Caller == stack[Len(stack) - 1]
SetTop(fr) == [stack EXCEPT ![Len(stack)] = fr]

\* file_paths = [parent_path] if isinstance(parent_path, str) else parent_path
FilePaths(parent_path) ==
    IF parent_path.kind = "str" THEN <<parent_path.val>> ELSE parent_path.val

\* the parents taken in list order
ListOrder(file_paths) == file_paths

\* for p_path in reversed(file_paths): the order the parents are loaded in
ParentOrder(file_paths) == Reverse(file_paths)

\* the arguments of the merge swapped: the parent over the child
MergeParentOverChild(data, parent_data) == Merge(parent_data, data)

\* a one-level merge, as {**parent_data, **data}
MergeTopLevel(data, parent_data) ==
    IF IsMap(data) /\ IsMap(parent_data)
    THEN Map([k \in Keys(data) \cup Keys(parent_data) |->
                IF HasKey(data, k) THEN data.val[k] ELSE parent_data.val[k]])
    ELSE data

\* a merge that appends the parent's sequence to the child's
RECURSIVE MergeConcatenating(_, _)
MergeConcatenating(data, parent_data) ==
    IF IsMap(data) /\ IsMap(parent_data)
    THEN Map([k \in Keys(data) \cup Keys(parent_data) |->
                IF HasKey(data, k)
                THEN IF HasKey(parent_data, k)
                     THEN MergeConcatenating(data.val[k], parent_data.val[k])
                     ELSE data.val[k]
                ELSE parent_data.val[k]])
    ELSE IF data.kind = "seq" /\ parent_data.kind = "seq"
    THEN List(data.val \o parent_data.val)
    ELSE data

\* data = context.merge(data, parent_data)
MergeParent(data, parent_data) == Merge(data, parent_data)

\* the outcome of a function body up to its first recursive call:
\* it returns `data`, or goes on to load the paths in `pending`
Returns(data) == [pc |-> "return", data |-> data, pending |-> <<>>, pops |-> 0]
Loops(data, pending) ==
    [pc |-> "loop", data |-> data, pending |-> pending, pops |-> 0]
\* the same outcome, reached through a data.pop("INHERIT")
Popped(step) == [step EXCEPT !.pops = @ + 1]

\* the INHERIT value read with data["INHERIT"], the key left in place
ReadInherit(data) ==
    LET parent_path == data.val["INHERIT"]
    IN  IF ~Truthy(parent_path) THEN Returns(data)
        ELSE Loops(data, ParentOrder(FilePaths(parent_path)))

\* data.pop("INHERIT") and what follows it, up to the loop
PopInherit(data) ==
    LET parent_path == data.val["INHERIT"]
        popped == Pop(data, "INHERIT")
    IN  IF ~Truthy(parent_path) THEN Popped(Returns(popped))
        ELSE Popped(Loops(popped, ParentOrder(FilePaths(parent_path))))

\* the INHERIT key consumed whatever resolve_inherit says
L_inherit_always(data, resolve_inherit) ==
    IF ~IsMap(data) \/ ~HasKey(data, "INHERIT")
    THEN Returns(data)
    ELSE PopInherit(data)

\* load.py, load_yaml_file: from the parsed data to the loop
L_inherit(data, resolve_inherit) ==
    IF resolve_inherit # "True" \/ ~IsMap(data) \/ ~HasKey(data, "INHERIT")
    THEN Returns(data)
    ELSE PopInherit(data)

\* a resolver that goes on without a base_dir
YL_resolve_inherit_without_dir(data, base_dir_is_none) ==
    IF ~IsMap(data) \/ ~HasKey(data, "INHERIT")
    THEN Returns(data)
    ELSE PopInherit(data)

\* yaml_loaders.py, _resolve_inherit: from its arguments to the loop
YL_resolve_inherit(data, base_dir_is_none) ==
    IF ~IsMap(data) \/ ~HasKey(data, "INHERIT") \/ base_dir_is_none
    THEN Returns(data)
    ELSE PopInherit(data)

\* two passes, by load_yaml and then by load_yaml_file, each queueing the
\* listed parents
YL_inherit_two_passes(data, resolve_inherit) ==
    IF resolve_inherit = "True"
    THEN [YL_resolve_inherit(data, FALSE) EXCEPT !.pending = @ \o @]
    ELSE Returns(data)

\* yaml_loaders.py, load_yaml_file: load_yaml(..., resolve_inherit=False),
\* then _resolve_inherit(data, path_obj.parent, ...) if resolve_inherit
YL_inherit(data, resolve_inherit) ==
    IF resolve_inherit = "True" THEN YL_resolve_inherit(data, FALSE)
    ELSE Returns(data)

\* load_universal.py, _resolve_inherit: from its arguments to the loop
LU_resolve_inherit(data, base_dir_is_none) ==
    IF ~IsMap(data) \/ ~HasKey(data, "INHERIT") \/ base_dir_is_none
    THEN Returns(data)
    ELSE PopInherit(data)

\* load_universal.py, load: what follows the parse.  base_dir is the
\* directory of text.name when the text has a name ("named"), the directory
\* passed as resolve_inherit ("dir"), and None when the text is a str and
\* resolve_inherit a bool
LU_load_inherit(data, resolve_inherit) ==
    IF resolve_inherit # "False"
    THEN IF resolve_inherit \in {"named", "dir"}
         THEN LU_resolve_inherit(data, FALSE)
         ELSE Returns(data)
    ELSE Returns(data)

\* a str resolved as if it had a location
YL_load_yaml_inherit_anyway(data, resolve_inherit) ==
    IF resolve_inherit \in {"True", "named"} THEN YL_resolve_inherit(data, FALSE)
    ELSE Returns(data)

\* yaml_loaders.py, load_yaml, line 300:
\* if resolve_inherit and hasattr(text, "name")
YL_load_yaml_inherit(data, resolve_inherit) ==
    IF resolve_inherit = "named" THEN YL_resolve_inherit(data, FALSE)
    ELSE Returns(data)

\* the directory the process runs in
WorkingDir(path_obj) == <<>>

\* load.py, line 249: the directory in path_obj.parent / p_path
L_base_dir(path_obj) == Parent(path_obj)

\* yaml_loaders.py, line 375: path_obj.parent, the base_dir of the resolver
YL_base_dir(path_obj) == Parent(path_obj)

\* a parent loaded with the default resolve_inherit=False
PassesDefault(resolve_inherit) == "False"

\* load.py, line 255: resolve_inherit=resolve_inherit in the recursive call
L_passes(resolve_inherit) == resolve_inherit

\* load_universal.py, load_file: the resolve_inherit that reaches load();
\* the call is load(text, mode, verify_type=verify_type), so it is load's
\* default
LU_load_file_passes(resolve_inherit) == "False"

\* the file error wrapped into the parsing error
WrapAsParsingError(fn, e) ==
    IF e = "FileNotFoundError" THEN "ParsingError" ELSE e

\* the except clauses of a frame: the exception that leaves it
Handler(fn, e) == e

\* the except clauses an exception passes on its way out of a frame, as the
\* functions that call logger.exception, innermost first.  `site` is where
\* in the frame the exception appeared: "mode" (a check before the try),
\* "read" (read_text), "load_yaml" (inside a load_yaml), "parse" (a parser
\* called by load itself), "loop" (a recursive call), "verify".
Logs(fn, site) ==
    CASE fn = LoadPy ->
            IF site = "load_yaml" THEN <<"load.load_yaml", LoadPy>>
            ELSE <<LoadPy>>
      [] fn = YamlLoaders ->
            IF site = "load_yaml" THEN <<YamlLoad, YamlLoaders>>
            ELSE <<YamlLoaders>>
      [] fn = YamlLoad -> <<YamlLoad>>
      [] fn = UniLoad ->
            CASE site = "load_yaml" -> <<YamlLoad, UniLoad>>
              [] site = "parse" -> <<UniLoad>>
              [] OTHER -> <<>>
      [] fn = UniLoadFile ->
            CASE site = "load_yaml" -> <<YamlLoad, UniLoad, UniLoadFile>>
              [] site = "parse" -> <<UniLoad, UniLoadFile>>
              [] site = "mode" -> <<>>
              [] OTHER -> <<UniLoadFile>>
      [] OTHER -> <<>>

\* raise e (carrying the original error c) at `site` of the running frame
Raise(e, c, site) ==
    /\ exc' = e
    /\ cause' = c
    /\ stack' = SetTop([Top EXCEPT !.pc = site])

Continue(fr, step) ==
    /\ stack' = SetTop([fr EXCEPT !.pc = step.pc, !.data = step.data,
                                  !.pending = step.pending,
                                  !.pops = @ + step.pops])
    /\ exc' = exc
    /\ cause' = cause

\* a read answered from the texts read before, in this load or an earlier one
ReadTextCached(path_obj) ==
    IF \/ \E i \in 1..Len(reads) : reads[i] = path_obj
       \/ \E n \in 1..Len(prior) :
             \E i \in 1..Len(prior[n].reads) : prior[n].reads[i] = path_obj
    THEN reads
    ELSE Append(reads, path_obj)

\* text = path_obj.read_text("utf-8"): the reads after it
ReadText(path_obj) == Append(reads, path_obj)

\* every parent loaded with the defaults of load_yaml_file
PassesDefaultOptions(opts) == WithMode(DefaultOptions, "unsafe")

\* load.py, lines 253-258: the options of the recursive call
L_passes_options(opts) == opts

\* yaml_loaders.py, lines 238-243: the options _resolve_inherit passes on
YL_passes_options(opts) == opts

\* load_universal.py, line 52: load_file(parent_cfg, mode=mode, ...)
LU_passes_options(opts) == WithMode(DefaultOptions, opts.mode)

(***************************************************************************)
(* Parsing                                                                 *)
(***************************************************************************)
\* load_yaml up to yaml.load: the exception it raises, "none" if it parses
LoadYaml(text, m) ==
    IF m \notin LoaderStrs THEN "KeyError"
    ELSE IF text.kind = "unparsable" THEN "YAMLError"
    ELSE "none"

\* the exception each parser of load_universal.load raises on a bad text
ParserError(format) ==
    CASE format = "yaml" -> "YAMLError"
      [] format = "toml" -> "TOMLDecodeError"
      [] format = "json" -> "JsonLoadError"
      [] format = "ini" -> "configparser.Error"

\* the parser's exception let through as it is
LU_parser_error_raw(format) ==
    [exc |-> ParserError(format), cause |-> "none"]

\* load_universal.load, the except clause of each format:
\* raise exceptions.ParsingError(msg, e) from e
LU_parser_error(format) ==
    [exc |-> "ParsingError", cause |-> ParserError(format)]

\* load_universal.load_file / dump_file: the format a mode stands for; every
\* path of the model ends in ".yaml", which FORMAT_MAPPING maps to "yaml"
LU_mode(m, path_obj) == IF m = "auto" THEN "yaml" ELSE m

\* verify.verify_type(data, verify_type): whether data has the shape.
\* "dict" is any mapping; "Config" is a TypedDict whose "settings" is a
\* mapping with the required key "retries".
Matches(data, verify_type) ==
    CASE verify_type = "dict" -> IsMap(data)
      [] verify_type = "Config" ->
            /\ IsMap(data) /\ HasKey(data, "settings")
            /\ IsMap(data.val["settings"])
            /\ HasKey(data.val["settings"], "retries")
      [] OTHER -> TRUE

\* the shape check applied to the text as parsed
VerifiesParsed(parsed, resolved) == parsed

\* load_universal.load: the document verify_type is applied to
Verifies(parsed, resolved) == resolved

\* load_universal.load, lines 178-184: the exception of the return
LU_verify(data, verify_type) ==
    IF verify_type = "None" \/ Matches(data, verify_type) THEN "none"
    ELSE "TypeError"

\* load_universal.load, lines 117-176, on the text `text`
LU_load_body(fr, text, format, resolve_inherit) ==
    IF format \notin SupportedFormats
    THEN Raise("ValueError", "none", "mode")
    ELSE IF (IF format = "yaml" THEN LoadYaml(text, "unsafe") # "none"
             ELSE text.kind = "unparsable")
         THEN Raise(LU_parser_error(format).exc, LU_parser_error(format).cause,
                    IF format = "yaml" THEN "load_yaml" ELSE "parse")
         ELSE Continue(fr, LU_load_inherit(text, resolve_inherit))

(***************************************************************************)
(* Entering a function: everything it does before its first recursive call *)
(***************************************************************************)
\* load.py, load_yaml_file, lines 223-246
L_load_yaml_file ==
    /\ stack # <<>> /\ exc = "none"
    /\ Top.fn = LoadPy /\ Top.pc = "start"
    /\ LET path_obj == Resolve(Top.path) IN
        /\ reads' = ReadText(path_obj)
        /\ IF path_obj \notin DOMAIN fs
           THEN Raise("FileNotFoundError", "none", "read")
           ELSE IF LoadYaml(fs[path_obj], Top.opts.mode) # "none"
           THEN Raise(LoadYaml(fs[path_obj], Top.opts.mode), "none", "load_yaml")
           ELSE Continue([Top EXCEPT !.base_dir = L_base_dir(path_obj)],
                         L_inherit(fs[path_obj], Top.resolve))
    /\ UNCHANGED <<yvars, prior, fs, entry, root, arg, mode, options, verify, result, outcome,
                   returned, log, writes>>

\* yaml_loaders.py, load_yaml_file, lines 356-381 (with the load_yaml it
\* calls and _resolve_inherit up to its loop)
YL_load_yaml_file ==
    /\ stack # <<>> /\ exc = "none"
    /\ Top.fn = YamlLoaders /\ Top.pc = "start"
    /\ LET path_obj == Resolve(Top.path) IN
        /\ reads' = ReadText(path_obj)
        /\ IF path_obj \notin DOMAIN fs
           THEN Raise("FileNotFoundError", "none", "read")
           ELSE IF LoadYaml(fs[path_obj], Top.opts.mode) # "none"
           THEN Raise(LoadYaml(fs[path_obj], Top.opts.mode), "none", "load_yaml")
           ELSE Continue([Top EXCEPT !.base_dir = YL_base_dir(path_obj)],
                         YL_inherit(fs[path_obj], Top.resolve))
    /\ UNCHANGED <<yvars, prior, fs, entry, root, arg, mode, options, verify, result, outcome,
                   returned, log, writes>>

\* yaml_loaders.py, load_yaml, lines 289-320, on a str (with
\* _resolve_inherit up to its loop); the text is the content of `root`,
\* and resolve "named" is resolve_inherit=True on a stream named `root`
YL_load_yaml ==
    /\ stack # <<>> /\ exc = "none"
    /\ Top.fn = YamlLoad /\ Top.pc = "start"
    /\ IF LoadYaml(fs[Top.path], Top.opts.mode) # "none"
       THEN Raise(LoadYaml(fs[Top.path], Top.opts.mode), "none", "load_yaml")
       ELSE Continue(Top, YL_load_yaml_inherit(fs[Top.path], Top.resolve))
    /\ UNCHANGED <<yvars, prior, fs, entry, root, arg, mode, options, verify, result, outcome, reads,
                   returned, log, writes>>

\* yaml_loaders.py, _resolve_inherit called on its own, lines 218-231
YL_resolve ==
    /\ stack # <<>> /\ exc = "none"
    /\ Top.fn = YLResolve /\ Top.pc = "start"
    /\ Continue(Top, YL_resolve_inherit(fs[Top.path], Top.resolve = "None"))
    /\ UNCHANGED <<yvars, prior, fs, entry, root, arg, mode, options, verify, result, outcome, reads,
                   returned, log, writes>>

\* load_universal.py, _resolve_inherit called on its own, lines 37-49
LU_resolve ==
    /\ stack # <<>> /\ exc = "none"
    /\ Top.fn = LUResolve /\ Top.pc = "start"
    /\ Continue(Top, LU_resolve_inherit(fs[Top.path], Top.resolve = "None"))
    /\ UNCHANGED <<yvars, prior, fs, entry, root, arg, mode, options, verify, result, outcome, reads,
                   returned, log, writes>>

\* load_universal.py, load_file, lines 257-287 (with the load() it calls);
\* path_obj is not resolved there, the file system follows its ".." itself
LU_load_file ==
    /\ stack # <<>> /\ exc = "none"
    /\ Top.fn = UniLoadFile /\ Top.pc = "start"
    /\ LET path_obj == Resolve(Top.path) IN
        IF LU_mode(Top.opts.mode, path_obj) \notin SupportedFormats
        THEN /\ Raise("ValueError", "none", "mode")
             /\ reads' = reads
        ELSE /\ reads' = ReadText(path_obj)
             /\ IF path_obj \notin DOMAIN fs
                THEN Raise("FileNotFoundError", "none", "read")
                ELSE LU_load_body(Top, fs[path_obj], LU_mode(Top.opts.mode, path_obj),
                                  LU_load_file_passes(Top.resolve))
    /\ UNCHANGED <<yvars, prior, fs, entry, root, arg, mode, options, verify, result, outcome,
                   returned, log, writes>>

\* load_universal.py, load, lines 117-176 (with _resolve_inherit up to its
\* loop); the text is the content of `root`
LU_load ==
    /\ stack # <<>> /\ exc = "none"
    /\ Top.fn = UniLoad /\ Top.pc = "start"
    /\ LU_load_body(Top, fs[Top.path], Top.opts.mode, Top.resolve)
    /\ UNCHANGED <<yvars, prior, fs, entry, root, arg, mode, options, verify, result, outcome, reads,
                   returned, log, writes>>

\* dump_universal.py, dump_file, lines 143-179: the format is validated,
\* then the serialized data is written
LU_dump_file ==
    /\ stack # <<>> /\ exc = "none"
    /\ Top.fn = DumpFile /\ Top.pc = "start"
    /\ LET path_obj == Resolve(Top.path) IN
        IF LU_mode(Top.opts.mode, path_obj) \notin SupportedFormats
        THEN /\ Raise("ValueError", "none", "mode")
             /\ writes' = writes
        ELSE /\ writes' = Append(writes, path_obj)
             /\ Continue(Top, Returns(NoDoc))
    /\ UNCHANGED <<yvars, prior, fs, entry, root, arg, mode, options, verify, result, outcome, reads,
                   returned, log>>

(***************************************************************************)
(* The loop over the parents: one recursive call                           *)
(***************************************************************************)
\* a path already being loaded is skipped instead of loaded again
CallUnlessActive(fn, path, resolve, opts) ==
    IF \E i \in 1..Len(stack) : Resolve(stack[i].path) = Resolve(path)
    THEN /\ stack' = SetTop([Top EXCEPT !.pending = Tail(@)])
         /\ exc' = exc
    ELSE /\ stack' = Append(stack, [Frame(fn, path, resolve, <<>>)
                                       EXCEPT !.opts = opts])
         /\ exc' = exc

\* a stack that holds no more than two nested calls
CallShallow(fn, path, resolve, opts) ==
    IF Len(stack) >= 2
    THEN /\ exc' = "RecursionError"
         /\ stack' = stack
    ELSE /\ stack' = Append(stack, [Frame(fn, path, resolve, <<>>)
                                       EXCEPT !.opts = opts])
         /\ exc' = exc

\* the call itself: a new frame, or RecursionError when the stack is full
Call(fn, path, resolve, opts) ==
    IF Len(stack) >= RecursionLimit
    THEN /\ exc' = "RecursionError"
         /\ stack' = stack
    ELSE /\ stack' = Append(stack, [Frame(fn, path, resolve, <<>>)
                                       EXCEPT !.opts = opts])
         /\ exc' = exc

InLoop(fns) ==
    /\ stack # <<>> /\ exc = "none"
    /\ Top.fn \in fns /\ Top.pc = "loop" /\ Top.pending # <<>>

\* load.py, lines 248-259
L_load_parent ==
    /\ InLoop({LoadPy})
    /\ Call(LoadPy, Join(Top.base_dir, Head(Top.pending)),
            L_passes(Top.resolve), L_passes_options(Top.opts))
    /\ UNCHANGED <<yvars, prior, fs, entry, root, arg, mode, options, verify, cause, result, outcome,
                   reads, returned, log, writes>>

\* yaml_loaders.py, _resolve_inherit, lines 231-244
YL_load_parent ==
    /\ InLoop({YamlLoaders, YamlLoad, YLResolve})
    /\ Call(YamlLoaders, Join(Top.base_dir, Head(Top.pending)), "True",
            YL_passes_options(Top.opts))
    /\ UNCHANGED <<yvars, prior, fs, entry, root, arg, mode, options, verify, cause, result, outcome,
                   reads, returned, log, writes>>

\* load_universal.py, _resolve_inherit, lines 49-52
LU_load_parent ==
    /\ InLoop({UniLoad, LUResolve})
    /\ Call(UniLoadFile, Join(Top.base_dir, Head(Top.pending)), "True",
            LU_passes_options(Top.opts))
    /\ UNCHANGED <<yvars, prior, fs, entry, root, arg, mode, options, verify, cause, result, outcome,
                   reads, returned, log, writes>>

(***************************************************************************)
(* Returning                                                               *)
(***************************************************************************)
Returning(fr) == fr.pc = "return" \/ (fr.pc = "loop" /\ fr.pending = <<>>)

\* a parent load returns and the caller merges it:
\* load.py line 260, yaml_loaders.py line 245, load_universal.py line 53
ReturnToCaller ==
    /\ Len(stack) >= 2 /\ exc = "none"
    /\ Returning(Top)
    /\ stack' = [SubSeq(stack, 1, Len(stack) - 1) EXCEPT ![Len(stack) - 1] =
                    [Caller EXCEPT !.data = MergeParent(Caller.data, Top.data),
                                   !.pending = Tail(Caller.pending),
                                   !.merged = Append(@, Head(Caller.pending))]]
    /\ returned' = IF Len(stack) = 2
                   THEN Append(returned, [path |-> Resolve(Top.path),
                                          data |-> Top.data])
                   ELSE returned
    /\ UNCHANGED <<yvars, prior, fs, entry, root, arg, mode, options, verify, exc, cause, result,
                   outcome, reads, log, writes>>

\* the top-level call returns to the caller of the library; load_universal
\* verifies the type first (load, lines 178-184)
ReturnToUser ==
    /\ Len(stack) = 1 /\ exc = "none"
    /\ Returning(Top)
    /\ LET e == IF Top.fn \in {UniLoad, UniLoadFile}
                THEN LU_verify(Verifies(fs[Resolve(Top.path)], Top.data), verify)
                ELSE "none"
       IN IF e = "none"
          THEN /\ result' = Top.data
               /\ outcome' = "ok"
               /\ stack' = <<>>
               /\ UNCHANGED <<exc, cause>>
          ELSE /\ Raise(e, "none", "verify")
               /\ UNCHANGED <<result, outcome>>
    /\ UNCHANGED <<yvars, prior, fs, entry, root, arg, mode, options, verify, reads, returned, log,
                   writes>>

\* an exception leaves the innermost frame through its except clauses
Unwind ==
    /\ stack # <<>> /\ exc # "none"
    /\ exc' = Handler(Top.fn, exc)
    /\ log' = log \o [i \in 1..Len(Logs(Top.fn, Top.pc)) |->
                        [fn |-> Logs(Top.fn, Top.pc)[i], path |-> Top.path,
                         exc |-> exc]]
    /\ stack' = SubSeq(stack, 1, Len(stack) - 1)
    /\ outcome' = IF Len(stack) = 1 THEN Handler(Top.fn, exc) ELSE outcome
    /\ UNCHANGED <<yvars, prior, fs, entry, root, arg, mode, options, verify, cause, result, reads,
                   returned, writes>>

\* the caller loads the same file once more, with the same arguments
LoadAgain ==
    /\ stack = <<>> /\ outcome = "ok"
    /\ entry \in {LoadPy, YamlLoaders}
    /\ Len(prior) + 1 < MaxLoads
    /\ prior' = Append(prior, [reads |-> reads, result |-> result])
    /\ stack' = <<FirstFrame>>
    /\ result' = NoDoc
    /\ outcome' = "running"
    /\ reads' = <<>>
    /\ returned' = <<>>
    /\ UNCHANGED <<yvars, fs, entry, root, arg, mode, options, verify, exc,
                   cause, log, writes>>

Next ==
    \/ L_load_yaml_file
    \/ YL_load_yaml_file
    \/ YL_load_yaml
    \/ YL_resolve
    \/ LU_resolve
    \/ LU_load_file
    \/ LU_load
    \/ LU_dump_file
    \/ L_load_parent
    \/ YL_load_parent
    \/ LU_load_parent
    \/ ReturnToCaller
    \/ ReturnToUser
    \/ Unwind
    \/ LoadAgain

Spec == Init /\ [][Next]_vars

Done == stack = <<>>

(***************************************************************************)
(* The parser level as a state machine: calls of get_loader and            *)
(* get_safe_loader that add loader classes to `classes`, and loads of a    *)
(* node tree through a class.                                              *)
(***************************************************************************)
\* how many loader classes a session creates
MaxCalls == 2

\* a session of get_loader / get_safe_loader calls followed by a yaml.load
GetLoader == "yaml_loaders.get_loader"

\* utils.create_subclass(base): a new class with the base's constructors
CreateSubclass(reg, base, made_by, flags) ==
    Append(reg, LoaderClass(reg[base].table, reg[base].multi, made_by, flags))

\* cls.add_constructor(tag, ctor) on class number i: the class gets its own
\* copy of the table with the tag bound
AddConstructor(reg, i, tag, ctor) ==
    [reg EXCEPT ![i].table =
        [t \in DOMAIN @ \cup {tag} |-> IF t = tag THEN ctor ELSE @[t]]]
\* cls.add_multi_constructor(prefix, ctor) on class number i
AddMultiConstructor(reg, i, prefix, ctor) ==
    [reg EXCEPT ![i].multi =
        [t \in DOMAIN @ \cup {prefix} |-> IF t = prefix THEN ctor ELSE @[t]]]

\* yaml_loaders.py, get_loader: the conditions of its three bindings
GL_always(flags) == TRUE
GL_include(flags) == flags.enable_include
GL_env(flags) == flags.enable_env
GL_jinja(flags) == flags.resolve_dict_keys \/ flags.resolve_strings

\* yaml_loaders.py, get_loader(base_loader_cls, ...): the registry after the
\* call; the class returned is the last one
GetLoaderClass(reg, base, flags) ==
    LET new == Len(reg) + 1
        r0 == CreateSubclass(reg, base, GetLoader, flags)
        r1 == IF GL_include(flags)
              THEN AddConstructor(r0, new, "!include", Ctor("include")) ELSE r0
        r2 == IF GL_env(flags)
              THEN AddConstructor(r1, new, "!ENV", Ctor("env")) ELSE r1
    IN  IF GL_jinja(flags)
        THEN AddConstructor(r2, new, StrTag,
                            JinjaCtor(flags.jinja_env, flags.resolve_strings,
                                      flags.resolve_dict_keys))
        ELSE r2

\* yaml_loaders.py, get_safe_loader: the prefixes given a dummy
\* multi-constructor
SL_name_only == {PythonName}
SL_python_tags == {PythonName, PythonApply}

RECURSIVE AddDummies(_, _, _)
AddDummies(reg, i, prefixes) ==
    IF prefixes = {} THEN reg
    ELSE LET p == CHOOSE p \in prefixes : TRUE
         IN  AddDummies(AddMultiConstructor(reg, i, p, Ctor("discard")), i,
                        prefixes \ {p})

\* yaml_loaders.py, get_safe_loader(base_loader_cls)
GetSafeLoaderClass(reg, base) ==
    LET new == Len(reg) + 1
        r0 == CreateSubclass(reg, base, "yaml_loaders.get_safe_loader",
                             [NoFlags EXCEPT !.base = base])
        r1 == AddConstructor(r0, new, "!include", Ctor("discard"))
        r2 == AddConstructor(r1, new, "!relative", Ctor("discard"))
    IN  AddDummies(r2, new, SL_python_tags)

\* the flag combinations of a get_loader call
FlagChoices(bases) ==
    [enable_include : BOOLEAN, enable_env : BOOLEAN, resolve_strings : BOOLEAN,
     resolve_dict_keys : BOOLEAN, jinja_env : {"env"}, base : bases]

\* the flags load_yaml passes to get_loader: enable_include and enable_env
\* keep their defaults
LoadYamlFlags(m, o) ==
    [enable_include |-> TRUE, enable_env |-> TRUE,
     resolve_strings |-> o.resolve_strings,
     resolve_dict_keys |-> o.resolve_dict_keys, jinja_env |-> o.jinja_env,
     base |-> BaseIndex(m)]

\* the options of a load_yaml call on a node tree
YamlOptions ==
    [include_base_path : {"None"}, resolve_strings : BOOLEAN,
     resolve_dict_keys : BOOLEAN, jinja_env : {"None", "env"}]

\* node trees: string scalars, tagged scalars, a mapping of a string key to
\* a scalar, a mapping tagged as a string, sequences of a tagged scalar
StrNodes == {ScalarNode(StrTag, s) : s \in Strings}
Plain == [text |-> "greeting", tpl |-> "plain"]
TaggedNodes == {ScalarNode(t, Plain) : t \in CustomTags \cup PythonTags}
MappingNodes ==
    {MappingNode(MapTag, k, v) :
        k \in StrNodes, v \in StrNodes \cup TaggedNodes \cup {ScalarNode(IntTag, 1)}}
StrMappingNodes ==
    {MappingNode(StrTag, k, ScalarNode(StrTag, Plain)) : k \in StrNodes}
SequenceNodes ==
    {SequenceNode(SeqTag, i) : i \in TaggedNodes}
    \cup {SequenceNode(t, i) : t \in {ApplyTag, ObjectTag},
                               i \in {ScalarNode("!include", Plain)}}
YamlDocs ==
    StrNodes \cup TaggedNodes \cup MappingNodes \cup StrMappingNodes
    \cup SequenceNodes
\* the inputs that carry a custom or python tag
TaggedDocs ==
    TaggedNodes \cup SequenceNodes
    \cup {d \in MappingNodes :
            d.value[1].value = Plain /\ d.value[2] \in TaggedNodes}

InitYaml ==
    /\ entry \in {GetLoader, YamlLoad}
    /\ mode \in (IF entry = YamlLoad THEN LoaderStrs ELSE {"unsafe"})
    /\ options \in (IF entry = YamlLoad THEN YamlOptions ELSE {DefaultOptions})
    /\ classes = LOADERS
    /\ node = NoDoc
    /\ effects = {}
    /\ result = NoDoc
    /\ outcome = "running"
    /\ exc = "none"
    /\ log = <<>>
    /\ fs = <<>> /\ root = <<>> /\ arg = "False" /\ stack = <<>>
    /\ reads = <<>> /\ returned = <<>> /\ verify = "None" /\ cause = "none"
    /\ writes = <<>> /\ prior = <<>>

\* a direct call of get_loader
Y_get_loader ==
    /\ entry = GetLoader /\ node = NoDoc
    /\ Len(classes) < Len(LOADERS) + MaxCalls
    /\ \E flags \in FlagChoices({1, 3}) :
          classes' = GetLoaderClass(classes, flags.base, flags)
    /\ UNCHANGED <<node, effects, result, outcome, exc, log>>
    /\ UNCHANGED <<fs, entry, root, arg, stack, reads, returned, mode, verify,
                   cause, writes, options, prior>>

\* a direct call of get_safe_loader
Y_get_safe_loader ==
    /\ entry = GetLoader /\ node = NoDoc
    /\ Len(classes) < Len(LOADERS) + MaxCalls
    /\ \E base \in 1..Len(LOADERS) :
          classes' = GetSafeLoaderClass(classes, base)
    /\ UNCHANGED <<node, effects, result, outcome, exc, log>>
    /\ UNCHANGED <<fs, entry, root, arg, stack, reads, returned, mode, verify,
                   cause, writes, options, prior>>

\* yaml.load(text, Loader=cls) with the class obtained last
Y_yaml_load ==
    /\ entry = GetLoader /\ node = NoDoc
    /\ \E doc \in TaggedDocs :
          LET r == ConstructObject(classes[Len(classes)], doc)
          IN  /\ node' = doc
              /\ effects' = r.eff
              /\ exc' = r.exc
              /\ outcome' = (IF r.exc = "none" THEN "ok" ELSE r.exc)
              /\ result' = (IF r.exc = "none" THEN r.val ELSE NoDoc)
              /\ log' = [n \in 1..r.logged |->
                            [fn |-> "yaml_loaders.construct_jinja2_str",
                             exc |-> "Exception"]]
    /\ UNCHANGED classes
    /\ UNCHANGED <<fs, entry, root, arg, stack, reads, returned, mode, verify,
                   cause, writes, options, prior>>

\* yaml_loaders.py, load_yaml(text, mode, ...) on a text that parses to the
\* node tree doc: the loader class is made, the tree constructed, and an
\* exception logged and raised again
Y_load_yaml ==
    /\ entry = YamlLoad /\ node = NoDoc
    /\ \E doc \in YamlDocs :
          LET reg == GetLoaderClass(classes, BaseIndex(mode),
                                    LoadYamlFlags(mode, options))
              r == ConstructObject(reg[Len(reg)], doc)
          IN  /\ classes' = reg
              /\ node' = doc
              /\ effects' = r.eff
              /\ exc' = r.exc
              /\ outcome' = (IF r.exc = "none" THEN "ok" ELSE r.exc)
              /\ result' = (IF r.exc = "none" THEN r.val ELSE NoDoc)
              /\ log' = [n \in 1..r.logged |->
                            [fn |-> "yaml_loaders.construct_jinja2_str",
                             exc |-> "Exception"]]
                        \o (IF r.exc = "none" THEN <<>>
                            ELSE <<[fn |-> YamlLoad, exc |-> r.exc]>>)
    /\ UNCHANGED <<fs, entry, root, arg, stack, reads, returned, mode, verify,
                   cause, writes, options, prior>>

NextYaml ==
    \/ Y_get_loader
    \/ Y_get_safe_loader
    \/ Y_yaml_load
    \/ Y_load_yaml

SpecYaml == InitYaml /\ [][NextYaml]_vars

(***************************************************************************)
(* Vocabulary of the properties                                            *)
(***************************************************************************)
\* the key paths a document of the model can define
KeyPaths == {<<"settings">>} \cup {<<"settings", k>> : k \in SubKeys}

\* the value at a key path, NoDoc when the path leads nowhere
RECURSIVE Lookup(_, _)
Lookup(doc, p) ==
    IF p = <<>> THEN doc
    ELSE IF HasKey(doc, Head(p)) THEN Lookup(doc.val[Head(p)], Tail(p))
    ELSE NoDoc

Same(x, y) == x.kind = y.kind /\ x.val = y.val

Defined(doc, p) == Lookup(doc, p).kind # "none"
\* the document gives the path a non-mapping value
Leaf(doc, p) == Defined(doc, p) /\ ~IsMap(Lookup(doc, p))
\* the document sets the path: it defines it, or gives a non-mapping value
\* to one of the mappings the path runs through
Sets(doc, p) ==
    \/ Defined(doc, p)
    \/ \E n \in 1..(Len(p) - 1) : Leaf(doc, SubSeq(p, 1, n))

\* the path an INHERIT entry of the file `f` names
Named(f, ref) == Resolve(Join(Parent(f), ref))

\* the paths the INHERIT entry of a file names, in list order
Inherits(f) ==
    IF f \in DOMAIN fs /\ HasKey(fs[f], "INHERIT")
          /\ Truthy(fs[f].val["INHERIT"])
    THEN LET refs == FilePaths(fs[f].val["INHERIT"])
         IN  [i \in 1..Len(refs) |-> Named(f, refs[i])]
    ELSE <<>>

Range(q) == {q[i] : i \in 1..Len(q)}

\* what the load of the parent `f` returned to the top-level call
ParentResult(f) == (CHOOSE r \in Range(returned) : r.path = f).data

\* a load_yaml_file call (either variant) with resolve_inherit=True
FileLoaders == {LoadPy, YamlLoaders}
InheritingLoad == entry \in FileLoaders /\ arg = "True"
LoadedOk == Done /\ outcome = "ok"
\* the file the caller names exists, its text parses, the mode is a known one
Loadable ==
    /\ Resolve(root) \in DOMAIN fs
    /\ fs[Resolve(root)].kind # "unparsable"
    /\ mode \in LoaderStrs

(***************************************************************************)
(* C1  Inheritance precedence                                              *)
(***************************************************************************)
TwoParents ==
    /\ InheritingLoad /\ LoadedOk
    /\ Len(Inherits(root)) = 2
    /\ Inherits(root)[1] # Inherits(root)[2]

SecondInheritsFirst ==
    /\ TwoParents
    /\ Inherits(Inherits(root)[2]) = <<Inherits(root)[1]>>

\* C2: with INHERIT: [p1, p2] and p2 inheriting p1, the result holds p2's
\* value for a key of p1 that p2 overrides, p1's value for every key that
\* neither p2 nor the child sets, and the child's value for every key the
\* child sets.
C2_MultipleInheritance ==
    SecondInheritsFirst =>
        LET p1 == ParentResult(Inherits(root)[1])
            p2 == fs[Inherits(root)[2]]
            child == fs[root]
        IN  \A k \in KeyPaths :
              /\ (Leaf(p2, k) /\ Defined(p1, k) /\ ~Sets(child, k))
                    => Same(Lookup(result, k), Lookup(p2, k))
              /\ (Leaf(p1, k) /\ ~Sets(p2, k) /\ ~Sets(child, k))
                    => Same(Lookup(result, k), Lookup(p1, k))
              /\ Leaf(child, k)
                    => Same(Lookup(result, k), Lookup(child, k))

\* the shape of test_multiple_inheritance: p2 overrides a nested key of p1,
\* leaves another to p1, and the child sets neither
C2_Witness ==
    /\ SecondInheritsFirst
    /\ LET p1 == ParentResult(Inherits(root)[1])
           p2 == fs[Inherits(root)[2]]
           child == fs[root]
       IN  /\ Leaf(p2, <<"settings", "timeout">>)
           /\ Leaf(p1, <<"settings", "timeout">>)
           /\ Leaf(p1, <<"settings", "retries">>)
           /\ ~Sets(p2, <<"settings", "retries">>)
           /\ ~Defined(child, <<"settings">>)
           /\ Lookup(result, <<"settings", "timeout">>)
                = Lookup(p2, <<"settings", "timeout">>)
           /\ Lookup(result, <<"settings", "retries">>)
                = Lookup(p1, <<"settings", "retries">>)

(***************************************************************************)
(* C3  A single parent                                                     *)
(***************************************************************************)
OneParent == InheritingLoad /\ LoadedOk /\ Len(Inherits(root)) = 1

\* the three cases of the claim, key by key, for result r, child c, parent p
RECURSIVE OverrideLaw(_, _, _)
OverrideLaw(r, c, p) ==
    /\ IsMap(r)
    /\ \A k \in Keys(c) \cup Keys(p) :
        /\ (HasKey(c, k) /\ ~IsMap(c.val[k]))
              => (HasKey(r, k) /\ Same(r.val[k], c.val[k]))
        /\ (~HasKey(c, k) /\ HasKey(p, k))
              => (HasKey(r, k) /\ r.val[k] = p.val[k])
        /\ (HasKey(c, k) /\ HasKey(p, k) /\ IsMap(c.val[k]) /\ IsMap(p.val[k]))
              => (HasKey(r, k) /\ OverrideLaw(r.val[k], c.val[k], p.val[k]))

\* C3: with one parent the result holds, at every key path, the child's value
\* where the child defines a non-mapping value, the parent's value where only
\* the parent defines the key, and the recursive merge where both define a
\* mapping.
C3_SingleInheritance ==
    OneParent =>
        OverrideLaw(result, Pop(fs[root], "INHERIT"),
                    ParentResult(Inherits(root)[1]))

\* the shape of test_single_inheritance: the child sets settings.timeout and
\* the result keeps the parent's settings.retries
C3_Witness ==
    /\ OneParent
    /\ Leaf(fs[root], <<"settings", "timeout">>)
    /\ ~Defined(fs[root], <<"settings", "retries">>)
    /\ Leaf(ParentResult(Inherits(root)[1]), <<"settings", "retries">>)
    /\ Lookup(result, <<"settings", "retries">>)
         = Lookup(ParentResult(Inherits(root)[1]), <<"settings", "retries">>)
    /\ Lookup(result, <<"settings", "timeout">>)
         = Lookup(fs[root], <<"settings", "timeout">>)

(***************************************************************************)
(* C4  Chains                                                              *)
(***************************************************************************)
\* the files from `f` up its ancestors while each names exactly one parent;
\* n bounds the walk
RECURSIVE Chain(_, _)
Chain(f, n) ==
    IF n = 0 \/ Len(Inherits(f)) # 1 THEN <<f>>
    ELSE <<f>> \o Chain(Inherits(f)[1], n - 1)

RootChain == Chain(root, Cardinality(Files))

\* the loaded file heads a chain of single parents that ends in a file
\* without parents
IsChain ==
    /\ InheritingLoad /\ LoadedOk
    /\ Len(RootChain) >= 2
    /\ \A i \in 1..Len(RootChain) : RootChain[i] \in DOMAIN fs
    /\ \A i, j \in 1..Len(RootChain) : RootChain[i] = RootChain[j] => i = j
    /\ Inherits(RootChain[Len(RootChain)]) = <<>>

\* C4: along a chain the nearest descendant that defines a key wins: a key
\* only an ancestor defines reaches the result, an intermediate override
\* carries the intermediate value, the loaded document's keys carry its own.
C4_NearestDefinitionWins ==
    IsChain =>
        \A k \in KeyPaths : \A i \in 1..Len(RootChain) :
            (/\ Leaf(fs[RootChain[i]], k)
             /\ \A j \in 1..(i - 1) : ~Sets(fs[RootChain[j]], k))
                => Same(Lookup(result, k), Lookup(fs[RootChain[i]], k))

\* the shape of test_nested_inheritance: three levels, one key from each
C4_Witness ==
    /\ IsChain
    /\ Len(RootChain) = 3
    /\ Lookup(result, <<"settings", "retries">>) = Sc(Tag(RootChain[3]))
    /\ Lookup(result, <<"settings", "timeout">>) = Sc(Tag(RootChain[2]))
    /\ ~Defined(fs[root], <<"settings">>)

(***************************************************************************)
(* C5  The INHERIT key never survives a resolving load                     *)
(***************************************************************************)
\* C5: every document load_yaml_file returns with resolve_inherit=True has
\* no top-level INHERIT key, whatever the depth of the chain and the number
\* of listed parents.
C5_NoInheritKey ==
    (InheritingLoad /\ LoadedOk) => ~HasKey(result, "INHERIT")

\* a load through a list of two parents, one of which inherits in turn
C5_Witness ==
    /\ TwoParents
    /\ \E i \in 1..2 : Inherits(Inherits(root)[i]) # <<>>
    /\ Len(reads) >= 4

(***************************************************************************)
(* C6  Inheritance resolution disabled                                     *)
(***************************************************************************)
\* C6: load_yaml_file with resolve_inherit=False (of a file that exists and
\* parses) returns the document exactly as parsed, INHERIT key and value
\* included, so with no key that only a parent defines, and reads no file but
\* the one it was given.
C6_DisabledIdentity ==
    (entry \in FileLoaders /\ arg = "False" /\ Loadable /\ Done) =>
        /\ outcome = "ok"
        /\ Same(result, fs[root])
        /\ reads = <<Resolve(root)>>

\* the shape of test_inheritance_disabled: the file names an existing parent
\* that defines a key the file does not
C6_Witness ==
    /\ entry \in FileLoaders /\ arg = "False" /\ Done
    /\ Len(Inherits(root)) = 1
    /\ Inherits(root)[1] \in DOMAIN fs
    /\ HasKey(result, "INHERIT")
    /\ Leaf(fs[Inherits(root)[1]], <<"settings", "retries">>)
    /\ ~Defined(result, <<"settings", "retries">>)

(***************************************************************************)
(* C7  A two-file cycle                                                    *)
(***************************************************************************)
\* the loaded file names one parent, which names the loaded file back
MutualCycle ==
    /\ InheritingLoad
    /\ Len(Inherits(root)) = 1
    /\ Inherits(root)[1] # Resolve(root)
    /\ Inherits(Inherits(root)[1]) = <<Resolve(root)>>

\* C7: loading a file of a two-file INHERIT cycle never returns a document:
\* the recursion deepens to the call-stack limit and the load fails with
\* RecursionError.
C7_CycleRaisesRecursionError ==
    MutualCycle =>
        /\ result = NoDoc
        /\ outcome \in {"running", "RecursionError"}
        /\ exc \in {"none", "RecursionError"}
        /\ Len(stack) <= RecursionLimit
        /\ exc = "RecursionError" => Len(reads) = RecursionLimit
        /\ Done => outcome = "RecursionError"

\* the load of a cycle has failed, after as many reads as the stack allows
C7_Witness ==
    /\ MutualCycle /\ Done
    /\ outcome = "RecursionError"
    /\ Len(reads) = RecursionLimit
    /\ reads[1] = reads[3] /\ reads[1] # reads[2]

(***************************************************************************)
(* C8  A missing parent                                                    *)
(***************************************************************************)
\* a read_text() of a path that is no file has happened
MissingRead == \E i \in 1..Len(reads) : reads[i] \notin DOMAIN fs

\* the paths reachable from the set S through at most n INHERIT links
RECURSIVE Ancestors(_, _)
Ancestors(S, n) ==
    IF n = 0 THEN S
    ELSE Ancestors(S \cup UNION {Range(Inherits(f)) : f \in S}, n - 1)

Reachable == Ancestors({Resolve(root)}, Cardinality(Files) + 1)

\* no file reachable from the loaded one is its own ancestor
AcyclicFromRoot ==
    \A f \in Reachable :
        f \notin Ancestors(Range(Inherits(f)), Cardinality(Files) + 1)

\* C8: when an INHERIT entry names a file that does not exist,
\* load_yaml_file(resolve_inherit=True) fails with FileNotFoundError itself,
\* at whatever depth the file is referenced, and returns no document.
C8_MissingParentFails ==
    InheritingLoad =>
        /\ MissingRead =>
              /\ result = NoDoc
              /\ IF Done THEN outcome = "FileNotFoundError"
                 ELSE exc = "FileNotFoundError" /\ outcome = "running"
        /\ (Done /\ AcyclicFromRoot /\ Reachable \ DOMAIN fs # {}) =>
              /\ outcome = "FileNotFoundError"
              /\ result = NoDoc

\* the missing file is named by the grandparent of the loaded file, and the
\* load has failed
C8_Witness ==
    /\ InheritingLoad /\ Done
    /\ outcome = "FileNotFoundError"
    /\ Len(reads) = 4
    /\ reads[4] \notin DOMAIN fs
    /\ Len(log) = 4

(***************************************************************************)
(* C9  load_file resolves inheritance                                      *)
(***************************************************************************)
\* C9: load_file with resolve_inherit=True on a file that has an INHERIT key
\* resolves the inheritance exactly once: the result has no INHERIT key and
\* every listed parent was loaded once and merged under the child.
C9_LoadFileResolvesOnce ==
    (entry = UniLoadFile /\ arg = "True" /\ LoadedOk
        /\ HasKey(fs[root], "INHERIT")) =>
        /\ ~HasKey(result, "INHERIT")
        /\ \A f \in Range(Inherits(root)) :
              Cardinality({i \in 1..Len(returned) : returned[i].path = f}) = 1

(***************************************************************************)
(* C10  load with a base directory resolves the parents' own inheritance   *)
(***************************************************************************)
\* the text names one parent, which names one existing file without parents
GrandparentCase ==
    /\ entry = UniLoad /\ arg = "dir" /\ LoadedOk
    /\ Len(Inherits(root)) = 1
    /\ Len(Inherits(Inherits(root)[1])) = 1
    /\ Inherits(Inherits(root)[1])[1] \in DOMAIN fs
    /\ Inherits(Inherits(Inherits(root)[1])[1]) = <<>>

\* C10: load with resolve_inherit=<directory> on a document whose parent has
\* an INHERIT key itself loads that parent with its inheritance resolved: the
\* result contains the grandparent's values and no INHERIT key.
C10_ParentsFullyResolved ==
    GrandparentCase =>
        LET parent == fs[Inherits(root)[1]]
            grandparent == fs[Inherits(Inherits(root)[1])[1]]
        IN  /\ ~HasKey(result, "INHERIT")
            /\ \A k \in KeyPaths :
                  (Leaf(grandparent, k) /\ ~Sets(parent, k)
                      /\ ~Sets(fs[root], k))
                    => Same(Lookup(result, k), Lookup(grandparent, k))

(***************************************************************************)
(* C11  The override law of the merge                                      *)
(***************************************************************************)
\* a step in which a parent load returns and its data is merged
MergeStep ==
    /\ Len(stack) >= 2 /\ exc = "none" /\ Returning(Top)
    /\ Len(stack') = Len(stack) - 1

\* the keys at which both sides hold a sequence keep the overlay's sequence
RECURSIVE SequencesReplaced(_, _, _)
SequencesReplaced(r, c, p) ==
    \A k \in Keys(c) \cap Keys(p) :
        /\ (c.val[k].kind = "seq" /\ p.val[k].kind = "seq")
              => (HasKey(r, k) /\ Same(r.val[k], c.val[k]))
        /\ (IsMap(c.val[k]) /\ IsMap(p.val[k]))
              => (HasKey(r, k) /\ SequencesReplaced(r.val[k], c.val[k], p.val[k]))

RawParserErrors == {ParserError(f) : f \in SupportedFormats}

\* load is called on a text its parser rejects
BadText ==
    /\ entry = UniLoad /\ mode \in SupportedFormats
    /\ fs[root].kind = "unparsable"

\* C12: a text the parser of its format (YAML, TOML, JSON, INI) rejects makes
\* load raise ParsingError carrying the parser's own error; no document is
\* returned, and no load ends with a raw parser exception.
C12_ParseFailureWrapped ==
    /\ (BadText /\ Done) =>
          /\ outcome = "ParsingError"
          /\ cause = ParserError(mode)
          /\ result = NoDoc
    /\ BadText => result = NoDoc /\ exc \in {"none", "ParsingError"}
    /\ entry = UniLoad => outcome \notin RawParserErrors

\* the load of a bad TOML text has failed, the TOML error inside the
\* ParsingError
C12_Witness ==
    /\ BadText /\ Done
    /\ mode = "toml"
    /\ outcome = "ParsingError"
    /\ cause = "TOMLDecodeError"

(***************************************************************************)
(* C13  Unknown formats and modes                                          *)
(***************************************************************************)
FileEntryPoints == {UniLoadFile, DumpFile, LoadPy, YamlLoaders}

\* the mode of the call is none the entry point knows
UnknownMode ==
    IF entry \in Universal THEN LU_mode(mode, Resolve(root)) \notin SupportedFormats
    ELSE mode \notin LoaderStrs

\* the errors that report a bad argument
ConfigurationErrors == {"ValueError", "KeyError"}

\* C13: load_file, dump_file and load_yaml_file called with an unknown format
\* or safety mode fail with a configuration error before any file is read or
\* written; with a path that does not exist the error is still the mode
\* error, not FileNotFoundError.
C13_ModeErrorBeforeIO ==
    (entry \in FileEntryPoints /\ UnknownMode) =>
        /\ reads = <<>> /\ writes = <<>>
        /\ result = NoDoc
        /\ Done => outcome \in ConfigurationErrors

\* what holds of the two universal entry points: the format is validated
\* before the file is touched
C13_UniversalModeErrorFirst ==
    (entry \in {UniLoadFile, DumpFile} /\ UnknownMode) =>
        /\ reads = <<>> /\ writes = <<>>
        /\ Done => outcome = "ValueError"

\* load_yaml_file with an unknown mode and a missing path has failed with
\* the file error
C13_FileErrorFirst ==
    /\ entry \in FileLoaders /\ UnknownMode /\ Done
    /\ root \notin DOMAIN fs
    /\ outcome = "FileNotFoundError"
    /\ reads = <<root>>

(***************************************************************************)
(* C14  Type verification comes last                                       *)
(***************************************************************************)
VerifyingLoad == entry = UniLoad /\ verify # "None"

\* load was given a location to resolve parents from
Locating == arg \in {"dir", "named"}

\* the number of parents the load of the text has to merge
ParentsToMerge == IF Locating THEN Len(Inherits(root)) ELSE 0

\* C14: in load, the shape check comes after the parse and after the
\* inheritance resolution: TypeError is raised only once every parent has
\* been loaded and merged, on merged data that does not match, and no data
\* is returned; a load that returns has returned the merged data, which
\* matches the shape.
C14_VerifyAfterResolution ==
    VerifyingLoad =>
        /\ (exc = "TypeError" /\ stack # <<>>) =>
              /\ Top.pc = "verify"
              /\ Top.pending = <<>> /\ Len(returned) = ParentsToMerge
              /\ ~Matches(Top.data, verify)
        /\ (exc = "TypeError" \/ outcome = "TypeError") => result = NoDoc
        /\ LoadedOk =>
              /\ Matches(result, verify)
              /\ Len(returned) = ParentsToMerge
              /\ \A i \in 1..Len(returned) :
                    \A p \in KeyPaths :
                        (Leaf(returned[i].data, p) /\ ~Sets(fs[root], p))
                            => Same(Lookup(result, p), Lookup(returned[i].data, p))

\* the text alone lacks the key the shape requires, its parent provides it,
\* and the load has returned the merged data; and a load whose merged data
\* lacks it fails
C14_Witness ==
    /\ VerifyingLoad /\ LoadedOk
    /\ verify = "Config"
    /\ ~Matches(fs[root], verify)
    /\ Len(returned) = 1
    /\ Matches(result, verify)

\* a load that resolved a parent and still fails the shape check
C14_MismatchAfterMerge ==
    /\ VerifyingLoad /\ Done
    /\ outcome = "TypeError"
    /\ Len(returned) = 1

(***************************************************************************)
(* C15  A string without a location                                        *)
(***************************************************************************)
\* load_yaml or load on a plain str, resolve_inherit=True, no directory
StringLoad == entry \in {YamlLoad, UniLoad} /\ arg = "True"

\* C15: a string load of a text that carries no location (a str without a
\* name, no base directory given) resolves nothing even with
\* resolve_inherit=True: no file is read, no parent load is started, and the
\* document returned is the parsed one, its INHERIT key still there.
C15_NoLocationNoResolution ==
    StringLoad =>
        /\ reads = <<>> /\ returned = <<>>
        /\ Len(stack) <= 1
        /\ LoadedOk => Same(result, fs[root])

\* the text names an existing parent, and the load has returned it as parsed
C15_Witness ==
    /\ StringLoad /\ LoadedOk
    /\ entry = YamlLoad
    /\ Len(Inherits(root)) = 1
    /\ Inherits(root)[1] \in DOMAIN fs
    /\ HasKey(result, "INHERIT")
    /\ Same(result.val["INHERIT"], fs[root].val["INHERIT"])

(***************************************************************************)
(* C16  One resolution pass per load                                       *)
(***************************************************************************)
\* the parents a frame has to merge, in the order of the loop: those its
\* document lists, none if it has no INHERIT key or an empty one
ToMerge(fr) ==
    LET doc == fs[Resolve(fr.path)]
    IN  IF HasKey(doc, "INHERIT") /\ Truthy(doc.val["INHERIT"])
        THEN ParentOrder(FilePaths(doc.val["INHERIT"]))
        ELSE <<>>

\* the frame has parsed its file and is in, or past, its loop
Parsed(fr) == fr.pc \in {"loop", "return"}

\* C16: in a load_yaml_file load with resolve_inherit=True (load.py and
\* yaml_loaders.py alike) every invocation makes one resolution pass over its
\* document: INHERIT is popped once if the document has it and never
\* otherwise, and the parents already merged followed by those still to load
\* are exactly the listed parents, each once; the top-level call has merged
\* each listed parent once when it returns.
C16_OneResolutionPass ==
    InheritingLoad =>
        /\ \A i \in 1..Len(stack) :
              LET fr == stack[i] IN
                /\ fr.pops <= 1
                /\ Parsed(fr) =>
                      /\ fr.pops = IF HasKey(fs[Resolve(fr.path)], "INHERIT")
                                   THEN 1 ELSE 0
                      /\ ~HasKey(fr.data, "INHERIT")
                      /\ fr.merged \o fr.pending = ToMerge(fr)
        /\ LoadedOk =>
              /\ Len(returned) = Len(Inherits(root))
              /\ \A i \in 1..Len(returned) :
                    returned[i].path = Reverse(Inherits(root))[i]
              /\ Len(reads) >= 1 + Len(Inherits(root))

\* a load through two listed parents, one of them inheriting itself, has
\* returned
C16_Witness ==
    /\ InheritingLoad /\ LoadedOk
    /\ Len(returned) = 2
    /\ \E f \in Range(Inherits(root)) : Inherits(f) # <<>>

\* a frame between the two merges of its loop
C16_MidLoop ==
    /\ InheritingLoad /\ Len(stack) = 1 /\ exc = "none"
    /\ Len(Top.merged) = 1 /\ Len(Top.pending) = 1
    /\ Top.pops = 1

(***************************************************************************)
(* C17  Logging of errors                                                  *)
(***************************************************************************)
Failed == Done /\ outcome # "ok"

\* C17: every error raised during a load is logged exactly once, where it is
\* detected, and not again by the enclosing calls it unwinds through: a
\* failed load leaves one log record, whatever the depth of the failure.
C17_LoggedOnce == Failed => Len(log) = 1

\* what the code does for a missing parent: every load_yaml_file invocation
\* on the stack logs the error as it passes, the one that failed to read
\* first and the top-level one last
C17_LoggedPerFrame ==
    (InheritingLoad /\ Failed /\ outcome = "FileNotFoundError"
        /\ Resolve(root) \in DOMAIN fs) =>
        /\ Len(log) >= 2
        /\ Resolve(log[1].path) = reads[Len(reads)]
        /\ log[Len(log)].path = root
        /\ \A i \in 1..Len(log) : log[i].exc = "FileNotFoundError"

\* a text that does not parse, given to load_yaml_file directly, is logged
\* by load_yaml and again by load_yaml_file
C17_LoggedTwiceAtDepthZero ==
    /\ entry \in FileLoaders /\ Failed
    /\ outcome = "YAMLError"
    /\ Len(reads) = 1
    /\ Len(log) = 2

(***************************************************************************)
(* C18  The cases in which the resolver does nothing                       *)
(***************************************************************************)
\* _resolve_inherit is called on a document that is no mapping, or has no
\* INHERIT key, or with base_dir None
NoOpCase ==
    /\ entry \in Resolvers
    /\ \/ ~IsMap(fs[root])
       \/ ~HasKey(fs[root], "INHERIT")
       \/ arg = "None"

\* C18: the resolver (of yaml_loaders.py and of load_universal.py) given a
\* document that is not a mapping, or has no INHERIT key, or given no
\* directory, returns its input unchanged, an INHERIT key included, and
\* loads no file.
C18_ResolverNoOp ==
    NoOpCase =>
        /\ reads = <<>> /\ returned = <<>>
        /\ Len(stack) <= 1 /\ exc = "none"
        /\ \A i \in 1..Len(stack) : stack[i].pops = 0
        /\ Done => (outcome = "ok" /\ Same(result, fs[root]))

\* a document naming an existing parent, resolved without a directory, has
\* come back with its INHERIT key
C18_Witness ==
    /\ NoOpCase /\ Done
    /\ arg = "None"
    /\ Len(Inherits(root)) = 1 /\ Inherits(root)[1] \in DOMAIN fs
    /\ HasKey(result, "INHERIT")
    /\ Same(result, fs[root])

\* with a directory the same resolvers do load the parent
C18_ResolvesWithDir ==
    /\ entry \in Resolvers /\ arg = "dir" /\ LoadedOk
    /\ Len(returned) = 1
    /\ ~HasKey(result, "INHERIT")

(***************************************************************************)
(* C19  An empty INHERIT value                                             *)
(***************************************************************************)
\* a call that runs the resolver with a directory to resolve from
Resolving ==
    \/ InheritingLoad
    \/ entry \in Resolvers /\ arg = "dir"
    \/ entry = UniLoad /\ Locating
    \/ entry = YamlLoad /\ arg = "named"

\* the document has an INHERIT key whose value is "", [] or null
FalsyInherit ==
    /\ Resolve(root) \in DOMAIN fs
    /\ HasKey(fs[root], "INHERIT")
    /\ \/ fs[root].val["INHERIT"].kind = "null"
       \/ fs[root].val["INHERIT"].kind \in {"str", "seq"}
            /\ Len(fs[root].val["INHERIT"].val) = 0

\* C19: resolving a document whose INHERIT value is the empty string, the
\* empty list or null removes the INHERIT key and nothing else: every other
\* key keeps its value, no parent file is read and nothing is merged.
C19_FalsyInheritRemoved ==
    (Resolving /\ FalsyInherit) =>
        /\ \A i \in 1..Len(reads) : reads[i] = Resolve(root)
        /\ Len(reads) <= 1 /\ returned = <<>>
        /\ Len(stack) <= 1
        /\ \A i \in 1..Len(stack) : stack[i].merged = <<>>
        /\ exc \in {"none", "KeyError", "TypeError", "ValueError"}
        /\ LoadedOk =>
              /\ ~HasKey(result, "INHERIT")
              /\ Same(result, Pop(fs[root], "INHERIT"))

\* a document with INHERIT: "" and a settings key has been resolved
C19_Witness ==
    /\ Resolving /\ FalsyInherit /\ LoadedOk
    /\ fs[root].val["INHERIT"].kind = "str"
    /\ HasKey(fs[root], "settings")
    /\ Keys(result) = {"settings"}
    /\ Same(result.val["settings"], fs[root].val["settings"])

\* the same for INHERIT: []
C19_EmptyList ==
    /\ Resolving /\ FalsyInherit /\ LoadedOk
    /\ fs[root].val["INHERIT"].kind = "seq"
    /\ Keys(result) = {"settings"}

(***************************************************************************)
(* C20  INHERIT paths are relative to the file that names them             *)
(***************************************************************************)
\* C20: in a load_yaml_file load, every parent load is of the path its
\* INHERIT entry names relative to the directory of the (resolved) file that
\* holds the entry, at every level of the chain; so every file read is the
\* loaded file or one named that way by a file read before it.
C20_RelativeToNamingFile ==
    entry \in FileLoaders =>
        /\ \A i \in 2..Len(stack) :
              /\ stack[i-1].pending # <<>>
              /\ Resolve(stack[i].path)
                    = Named(Resolve(stack[i-1].path), Head(stack[i-1].pending))
        /\ \A i \in 2..Len(reads) :
              \E j \in 1..(i-1) : reads[i] \in Range(Inherits(reads[j]))

\* a chain through two directories: c.yaml names sub/a.yaml, which names
\* ../b.yaml; b.yaml is being loaded, and the same entry taken relative to
\* the directory of c.yaml would name no file
C20_Witness ==
    /\ entry \in FileLoaders /\ arg = "True"
    /\ Len(stack) = 3 /\ exc = "none"
    /\ Resolve(stack[2].path) = FileA
    /\ Parent(FileA) # Parent(Resolve(root))
    /\ reads = <<FileC, FileA, FileB>>
    /\ Join(Parent(Resolve(root)), Head(stack[2].pending)) \notin DOMAIN fs
    /\ Resolve(Join(Parent(Resolve(root)), Head(stack[2].pending))) \notin DOMAIN fs
    /\ Top.pc # "start"

(***************************************************************************)
(* C21  Nothing is cached                                                  *)
(***************************************************************************)
\* how many times the path f was read in this load
TimesRead(f) == Cardinality({i \in 1..Len(reads) : reads[i] = f})

\* the number of INHERIT paths of at most n links from the file f to the
\* file g; SumPaths adds them up over the parents in the list q
RECURSIVE InheritPaths(_, _, _), SumPaths(_, _, _)
InheritPaths(f, g, n) ==
    IF f = g THEN 1
    ELSE IF n = 0 THEN 0
    ELSE SumPaths(Inherits(f), g, n - 1)
SumPaths(q, g, n) ==
    IF q = <<>> THEN 0
    ELSE InheritPaths(Head(q), g, n) + SumPaths(Tail(q), g, n)

\* C21: nothing is cached.  In a load_yaml_file load that returns, a file
\* that n inheritance paths lead to from the loaded file has been read n
\* times (a base shared by two listed parents is read once for each); and a
\* second load of the same file reads the same files again, in the same
\* order, and returns the same document.
C21_NoCaching ==
    (InheritingLoad /\ LoadedOk) =>
        /\ \A f \in Files :
              TimesRead(f) = InheritPaths(Resolve(root), f, Cardinality(Files))
        /\ \A n \in 1..Len(prior) :
              /\ reads = prior[n].reads
              /\ Same(result, prior[n].result)

\* a diamond, loaded twice: both times the shared base was read twice
C21_Witness ==
    /\ InheritingLoad /\ LoadedOk
    /\ Len(prior) = 1
    /\ Len(Inherits(root)) = 2
    /\ \E f \in Files : TimesRead(f) = 2
    /\ Len(reads) = 4 /\ Len(prior[1].reads) = 4


(***************************************************************************)
(* Vocabulary of the parser-level properties                               *)
(***************************************************************************)
\* a load_yaml call has constructed (or failed to construct) a node tree
YamlLoaded == entry = YamlLoad /\ node # NoDoc
\* a yaml.load through a class of the session has done so
SessionLoaded == entry = GetLoader /\ node # NoDoc
\* the template handler is bound and renders: an engine is supplied and
\* resolve_strings is set
Rendering == options.jinja_env = "env" /\ options.resolve_strings

\* the string scalars of a node tree, each with its place: 0 for the tree
\* itself, i for the i-th child
StrScalarsOf(n) ==
    IF n.kind = "scalar"
    THEN (IF n.tag = StrTag THEN {<<0, n.value>>} ELSE {})
    ELSE {<<i, n.value[i].value>> :
            i \in {j \in 1..Len(n.value) : n.value[j].tag = StrTag}}
\* the part of a constructed value built from the node at a place
BuiltAt(v, i) == IF i = 0 THEN v ELSE v.val[i]
IsStr(v, s) == v.kind = "pystr" /\ v.val = s

\* node trees whose nodes are strings and integers under their own tags
PlainDocs ==
    StrNodes \cup {d \in MappingNodes : d.value[2].tag \in {StrTag, IntTag}}

\* C22: when the template handler renders the string scalars of a load, a
\* scalar whose rendering raises jinja2.TemplateError fails the whole load
\* with that error and no document; when no scalar does, the load succeeds,
\* and every scalar whose rendering raises another exception is built as
\* its raw, unrendered string (logged by the handler), at its place in the
\* document.
C22_TemplateErrorsPropagate ==
    (YamlLoaded /\ Rendering /\ node \in PlainDocs) =>
        IF \E p \in StrScalarsOf(node) : RenderError(p[2]) = "TemplateError"
        THEN /\ outcome = "TemplateError"
             /\ result.kind = "none"
        ELSE /\ outcome = "ok"
             /\ \A p \in StrScalarsOf(node) :
                   RenderError(p[2]) # "none" =>
                       IsStr(BuiltAt(result, p[1]), p[2])
             /\ Len(log) =
                   Cardinality({p \in StrScalarsOf(node) :
                                   RenderError(p[2]) # "none"})

\* a mapping whose key raises ZeroDivisionError and whose value renders is
\* loaded: the key is raw, the value rendered
C22_Witness ==
    /\ YamlLoaded /\ Rendering /\ node.kind = "mapping" /\ node.tag = MapTag
    /\ node.value[1].value.tpl = "zerodiv"
    /\ node.value[2].tag = StrTag /\ node.value[2].value.tpl = "template"
    /\ outcome = "ok"
    /\ IsStr(result.val[1], node.value[1].value)
    /\ result.val[2].val.tpl = "rendered"
    /\ Len(log) = 1


\* a load_yaml call with an engine supplied has built a one-pair mapping
\* whose key is a template
TemplateKeyLoaded ==
    /\ YamlLoaded /\ options.jinja_env = "env"
    /\ node \in MappingNodes /\ node.value[1].value.tpl = "template"
    /\ outcome = "ok"
KeyRendered == result.val[1].val.tpl = "rendered"
KeyVerbatim == IsStr(result.val[1], node.value[1].value)

\* C23: with a template engine supplied, a string mapping key is rendered
\* exactly when resolve_dict_keys is set, whatever resolve_strings is:
\* rendered with resolve_dict_keys=True and resolve_strings=False, verbatim
\* with resolve_dict_keys=False and resolve_strings=True.
C23_KeysFollowResolveDictKeys ==
    TemplateKeyLoaded =>
        IF options.resolve_dict_keys THEN KeyRendered ELSE KeyVerbatim

\* what holds of the code: the key is a string scalar built by the same
\* handler as every other string, which renders exactly when
\* resolve_strings is set
C23_KeysFollowResolveStrings ==
    TemplateKeyLoaded =>
        IF options.resolve_strings THEN KeyRendered ELSE KeyVerbatim

\* the two loads the claim names, as the code performs them
C23_KeyLeftVerbatim ==
    /\ TemplateKeyLoaded /\ KeyVerbatim
    /\ options.resolve_dict_keys /\ ~options.resolve_strings
C23_KeyRenderedAnyway ==
    /\ TemplateKeyLoaded /\ KeyRendered
    /\ ~options.resolve_dict_keys /\ options.resolve_strings


\* the classes made by get_loader calls
MadeByGetLoader ==
    {i \in 1..Len(classes) : classes[i].made_by = GetLoader}
Bound(c, tag) == tag \in DOMAIN c.table

\* C24: whatever get_loader (and get_safe_loader) calls have been made, the
\* three loaders of LOADERS are as they were, and every class a get_loader
\* call returned holds the bindings of its own flags and no others: !include
\* exactly when enable_include, !ENV exactly when enable_env, the template
\* handler on the string tag exactly when a template flag is set, and
\* everything else as in its base.
C24_BindingsPerCall ==
    /\ \A i \in 1..Len(LOADERS) : classes[i] = LOADERS[i]
    /\ \A i \in MadeByGetLoader :
          LET c == classes[i]
              f == c.flags
              b == LOADERS[f.base]
          IN  /\ Bound(c, "!include") <=> f.enable_include
              /\ Bound(c, "!ENV") <=> f.enable_env
              /\ ~Bound(c, "!relative")
              /\ c.table[StrTag].h = "jinja"
                    <=> (f.resolve_strings \/ f.resolve_dict_keys)
              /\ DOMAIN c.table \subseteq DOMAIN b.table \cup CustomTags
              /\ \A t \in DOMAIN b.table \ {StrTag} : c.table[t] = b.table[t]
              /\ c.multi = b.multi

\* two get_loader calls with opposite flags: the first class has !include
\* and no !ENV, the second !ENV and no !include
C24_Witness ==
    /\ Len(classes) = Len(LOADERS) + 2
    /\ MadeByGetLoader = {4, 5}
    /\ classes[4].flags.enable_include /\ ~classes[4].flags.enable_env
    /\ ~classes[5].flags.enable_include /\ classes[5].flags.enable_env
    /\ Bound(classes[4], "!include") /\ ~Bound(classes[4], "!ENV")
    /\ Bound(classes[5], "!ENV") /\ ~Bound(classes[5], "!include")
    /\ classes[4].flags.base = classes[5].flags.base


\* the class a session's yaml.load used was made by get_safe_loader
SafeLoaded ==
    /\ SessionLoaded
    /\ classes[Len(classes)].made_by = "yaml_loaders.get_safe_loader"
\* the tags get_safe_loader is to discard: !include, !relative,
\* python/name:*, python/object/apply:*
DiscardedTags == {"!include", "!relative", NameTag, ApplyTag}
\* the tagged nodes of an input, each with its place: a discarded node's
\* children are never visited
TagsAt(n) ==
    IF n.kind = "scalar" \/ n.tag \in DiscardedTags THEN {<<0, n.tag>>}
    ELSE {<<0, n.tag>>} \cup {<<i, n.value[i].tag>> : i \in 1..Len(n.value)}
\* every tag written in the input
TagsIn(n) ==
    IF n.kind = "scalar" THEN {n.tag}
    ELSE {n.tag} \cup {n.value[i].tag : i \in 1..Len(n.value)}

SafeLoaderInstantiates ==
    SafeLoaded /\ "instantiate" \in effects /\ ObjectTag \in TagsIn(node)


(***************************************************************************)
(* C26  The options reach every ancestor                                   *)
(***************************************************************************)
\* C26: while load_yaml_file resolves inheritance, every invocation on the
\* call stack, the root's and each ancestor's at whatever depth, runs with
\* the options of the root call: the same mode, include base path,
\* resolve_strings, resolve_dict_keys and template engine, and with
\* resolve_inherit set; so no ancestor is parsed in another mode than the
\* caller's.
C26_AncestorsGetRootOptions ==
    InheritingLoad =>
        \A i \in 1..Len(stack) :
            /\ stack[i].fn = entry
            /\ stack[i].opts = WithMode(options, mode)
            /\ stack[i].resolve = "True"

\* a load in safe mode with every option set has reached a grandparent
C26_Witness ==
    /\ InheritingLoad /\ options = CustomOptions /\ mode = "safe"
    /\ Len(stack) = 3
    /\ stack[3].opts.mode = "safe" /\ stack[3].opts.jinja_env = "env"
    /\ stack[3].opts.resolve_strings /\ stack[3].opts.resolve_dict_keys
    /\ stack[3].opts.include_base_path = "base"
    /\ stack[3].pc # "start"


(***************************************************************************)
(* C27  Termination                                                        *)
(*                                                                         *)
(* The file loaders on their own, with the fairness of a sequential        *)
(* program: a call that can take its next step takes it.                   *)
(***************************************************************************)
\* load_yaml_file(path, resolve_inherit=True), either variant
InitFileLoaders == Init /\ InheritingLoad

NextFileLoaders ==
    \/ L_load_yaml_file
    \/ YL_load_yaml_file
    \/ L_load_parent
    \/ YL_load_parent
    \/ ReturnToCaller
    \/ ReturnToUser
    \/ Unwind

FairSpec ==
    InitFileLoaders /\ [][NextFileLoaders]_vars /\ WF_vars(NextFileLoaders)

\* every file the loaded one leads to exists and parses, none is its own
\* ancestor, and the mode is a known one
WellFormedGraph ==
    /\ AcyclicFromRoot
    /\ \A f \in Reachable : f \in DOMAIN fs /\ fs[f].kind # "unparsable"
    /\ mode \in LoaderStrs

\* the number of inheritance paths from the loaded file to the files of S,
\* the path of no link to itself among them
RECURSIVE PathsTo(_)
PathsTo(S) ==
    IF S = {} THEN 0
    ELSE LET f == CHOOSE f \in S : TRUE
         IN  InheritPaths(Resolve(root), f, Cardinality(Files))
             + PathsTo(S \ {f})

=============================================================================
